---------------------------- MODULE Spec2Model ----------------------------
(***************************************************************************)
(* A model of two front-end features of coze-studio:                       *)
(*                                                                         *)
(*  - the Dify integration page (DifyManagementPage) with its import       *)
(*    dialog (DifyImportModal): scan, row selection, sequential plugin     *)
(*    registration, and the dialog's three import channels;                *)
(*  - the workflow resource menu (useWorkflowResourceMenuActions): the     *)
(*    visible/enabled derivation of the row actions and exportWorkflow.    *)
(*                                                                         *)
(* Each event handler is one action.  An async handler is split at its     *)
(* awaits: the part up to the first await is the action named after the    *)
(* handler, and each resumption is an action of its own.  A handler reads  *)
(* the state of the render in which it was created, so an async handler    *)
(* carries a snapshot of what it closed over.                              *)
(***************************************************************************)
EXTENDS Naturals, Sequences, FiniteSets, TLC

\* JavaScript's undefined, for an optional field that is absent.
Undefined == "undefined"

\* A value that `x || y` and `!x` treat as false, among strings.
Falsy(s) == s \in {Undefined, ""}

Range(s) == {s[k] : k \in 1..Len(s)}

Min(a, b) == IF a < b THEN a ELSE b

\* s.substring(0, n)
Substring0(s, n) == SubSeq(s, 1, Min(n, Len(s)))

\* The duplicate-free sequences over S.
RECURSIVE Perms(_)
Perms(S) ==
  IF S = {} THEN {<<>>}
  ELSE UNION {{<<x>> \o p : p \in Perms(S \ {x})} : x \in S}

Arrangements(S) == UNION {Perms(T) : T \in SUBSET S}

-----------------------------------------------------------------------------
(* The inputs of the Dify page.                                            *)

\* useState's initial difyHost.
DefaultHost == "http://192.168.9.177"

\* The API key the mount effect puts in the form.
defaultApiKey == "app-5fnRjk7sUZZKCJyPvxFcZQ1a"

\* What the operator may type in the form's two fields.
Hosts == {DefaultHost, "http://h"}
ApiKeys == {defaultApiKey, "app-abc", "workflow-w1"}

\* What the backend answers to one fetch: an OK response, a non-OK response,
\* or a rejected promise (network error).
Responses == {"ok", "notok", "reject"}

VARIABLES
  \* DifyManagementPage
  loading, scanning, showImportModal, configForm, apps, selectedApps,
  importedApps,
  navigated,      \* navigate('/library') has been called: the page is left
  toast,          \* the last Toast shown by a handler that does not await
  reg,            \* the running registerSelectedApps call
  imp,            \* the running handleImportSuccess call
  \* DifyImportModal
  modalLoading, scannedApps, modalSelectedApps,
  fileRead,       \* the running importFromFile call
  \* useWorkflowResourceMenuActions
  menu,           \* the last rendered row menu, with its inputs
  exp,            \* the running exportWorkflow call
  wfi             \* the running importWorkflow call

pageVars == <<loading, scanning, showImportModal, configForm, apps,
              selectedApps, importedApps, navigated, toast, reg, imp>>
modalVars == <<modalLoading, scannedApps, modalSelectedApps, fileRead>>
menuVars == <<menu, exp, wfi>>
vars == <<pageVars, modalVars, menuVars>>

NoToast == [by |-> "none", kind |-> "none"]
Toast(by, kind) == [by |-> by, kind |-> kind]

-----------------------------------------------------------------------------
(* DifyManagementPage: scan and selection.                                 *)

\* The two apps scanDifyApps builds from the form's API key.
ScanResult(form) ==
  << [id |-> form.apiKey,
      name |-> "Dify chat app",
      description |-> "API Key: " \o Substring0(form.apiKey, 10) \o "... chat app",
      type |-> "chat",
      api_endpoint |-> Undefined],
     [id |-> "example-workflow-001",
      name |-> "example workflow",
      description |-> "example workflow imported from Dify",
      type |-> "workflow",
      api_endpoint |-> Undefined] >>

\* Form.onValueChange: the changed values are merged into configForm.
onValueChange ==
  /\ ~navigated
  /\ \E h \in Hosts, k \in ApiKeys :
       /\ [difyHost |-> h, apiKey |-> k] # configForm
       /\ configForm' = [difyHost |-> h, apiKey |-> k]
  /\ UNCHANGED <<loading, scanning, showImportModal, apps, selectedApps,
                 importedApps, navigated, toast, reg, imp>>
  /\ UNCHANGED <<modalVars, menuVars>>

\* A handler without the finally block: the flag stays as it was.
FinallyLoadingMissing(flag) == flag

\* `finally { setScanning(false) }`, `finally { setLoading(false) }`: the
\* flag once the handler has ended, whatever it was inside the try block.
FinallyLoading(flag) == FALSE

\* scanDifyApps has no await: setScanning(true), setApps, the toast and the
\* finally block's setScanning(false) run in one step.  It does not touch
\* selectedApps.
scanDifyApps ==
  /\ ~navigated
  /\ apps' = ScanResult(configForm)
  /\ scanning' = FinallyLoading(TRUE)
  /\ toast' = Toast("scanDifyApps", "success")
  /\ UNCHANGED <<loading, showImportModal, configForm, selectedApps,
                 importedApps, navigated, reg, imp>>
  /\ UNCHANGED <<modalVars, menuVars>>

\* Table rowSelection.onChange: the table hands over the keys of rows it
\* shows, in the order they were ticked.  The table is rendered only while
\* apps is not empty.
rowSelectionOnChange ==
  /\ ~navigated
  /\ apps # <<>>
  /\ \E keys \in Arrangements({a.id : a \in Range(apps)}) :
       /\ keys # selectedApps
       /\ selectedApps' = keys
  /\ UNCHANGED <<loading, scanning, showImportModal, configForm, apps,
                 importedApps, navigated, toast, reg, imp>>
  /\ UNCHANGED <<modalVars, menuVars>>

-----------------------------------------------------------------------------
(* The register_plugin_meta call, shared by both registration loops.       *)

\* apps.find(a => a.id === appId): the index of the first match, 0 if none.
RECURSIVE FindFrom(_, _, _)
FindFrom(list, appId, k) ==
  IF k > Len(list) THEN 0
  ELSE IF list[k].id = appId THEN k
  ELSE FindFrom(list, appId, k + 1)

Find(list, appId) == FindFrom(list, appId, 1)

\* `${difyHost}/v1/${app.type === 'chat' ? 'chat-messages'
\*                                      : `workflows/${app.id}/run`}`
InvocationUrl(host, app) ==
  host \o "/v1/" \o
    (IF app.type = "chat" THEN "chat-messages"
     ELSE "workflows/" \o app.id \o "/run")

\* The fetch a registration loop issues for one app.
RegisterCall(app, url, form) ==
  [endpoint |-> "/api/plugin_api/register_plugin_meta",
   method |-> "POST",
   id |-> app.id,
   name |-> app.name,
   desc |-> app.description,
   url |-> url,
   service_token |-> "Bearer " \o form.apiKey,
   response |-> "pending"]

\* A loop that forgets the `response.ok` test: only a rejected fetch throws.
ResponseThrowsRejectOnly(resp) == resp = "reject"

\* `if (!response.ok) throw`, and a rejected fetch throws by itself.
ResponseThrows(resp) == resp # "ok"

\* The last call of a batch has settled with resp.
Settle(calls, resp) ==
  [calls EXCEPT ![Len(calls)].response = resp]

IdleProc ==
  [pc |-> "idle", list |-> <<>>, apps |-> <<>>,
   form |-> [difyHost |-> "", apiKey |-> ""], i |-> 0,
   calls |-> <<>>, toasts |-> <<>>, nav |-> FALSE]


-----------------------------------------------------------------------------
(* DifyManagementPage: registerSelectedApps.                               *)

\* The `for (const appId of selectedApps)` loop from position k on: the
\* position of the first id that apps.find resolves (`if (!app) continue`
\* skips the others), Len + 1 when the loop runs out.
RECURSIVE NextRegistrable(_, _, _)
NextRegistrable(list, snapshot, k) ==
  IF k > Len(list) THEN k
  ELSE IF Find(snapshot, list[k]) # 0 THEN k
  ELSE NextRegistrable(list, snapshot, k + 1)

\* The loop of registerSelectedApps resumed at position k: it either issues
\* the next fetch and suspends at its await, or leaves the loop, shows the
\* success toast and returns.
RegisterLoop(p, k) ==
  LET j == NextRegistrable(p.list, p.apps, k) IN
  IF j <= Len(p.list)
  THEN LET app == p.apps[Find(p.apps, p.list[j])] IN
       [p EXCEPT !.pc = "await", !.i = j,
                 !.calls = @ \o <<RegisterCall(app,
                                    InvocationUrl(p.form.difyHost, app),
                                    p.form)>>]
  ELSE \* Toast.success, then navigate('/library')
       [p EXCEPT !.pc = "idle", !.i = j, !.toasts = @ \o <<"success">>,
                 !.nav = TRUE, !.apps = <<>>, !.form = IdleProc.form]

\* A handler without the guard on an empty selection.
EmptySelectionUnguarded(sel) == FALSE

\* `if (selectedApps.length === 0)`: warn and return.
EmptySelection(sel) == Len(sel) = 0

\* registerSelectedApps up to its first await.  The button exists only while
\* apps is not empty.  Its `disabled` prop repeats the function's own guard,
\* which is what is modelled here; one call runs at a time.
registerSelectedApps ==
  /\ ~navigated
  /\ apps # <<>>
  /\ reg.pc = "idle"
  /\ IF EmptySelection(selectedApps)
     THEN /\ toast' = Toast("registerSelectedApps", "warning")
          /\ UNCHANGED <<loading, navigated, reg>>
     ELSE LET p == RegisterLoop([IdleProc EXCEPT !.list = selectedApps,
                                                 !.apps = apps,
                                                 !.form = configForm], 1) IN
          /\ reg' = p
          \* setLoading(true); the finally block has run if nothing awaited
          /\ loading' = IF p.pc = "await" THEN TRUE ELSE FinallyLoading(TRUE)
          /\ navigated' = (p.pc = "idle")
          /\ toast' = toast
  /\ UNCHANGED <<scanning, showImportModal, configForm, apps, selectedApps,
                 importedApps, imp>>
  /\ UNCHANGED <<modalVars, menuVars>>

\* The awaited fetch of registerSelectedApps settles.
registerResponse ==
  /\ reg.pc = "await"
  /\ \E resp \in Responses :
       LET back == [reg EXCEPT !.calls = Settle(@, resp)] IN
       IF ResponseThrows(resp)
       THEN \* catch: error toast; finally: setLoading(false)
            /\ reg' = [back EXCEPT !.pc = "idle", !.toasts = @ \o <<"error">>,
                                   !.apps = <<>>, !.form = IdleProc.form]
            /\ loading' = FinallyLoading(loading)
            /\ UNCHANGED navigated
       ELSE LET p == RegisterLoop(back, reg.i + 1) IN
            /\ reg' = p
            /\ IF p.pc = "idle"
               THEN loading' = FinallyLoading(loading) /\ navigated' = TRUE
               ELSE UNCHANGED <<loading, navigated>>
  /\ UNCHANGED <<scanning, showImportModal, configForm, apps, selectedApps,
                 importedApps, toast, imp>>
  /\ UNCHANGED <<modalVars, menuVars>>

-----------------------------------------------------------------------------
(* DifyManagementPage: handleImportSuccess, the dialog's onSuccess.        *)

\* app.api_endpoint || `${difyHost}/v1/...`
ImportUrl(host, app) ==
  IF Falsy(app.api_endpoint) THEN InvocationUrl(host, app)
  ELSE app.api_endpoint

\* The `for (const app of importedApps)` loop resumed at position k.
ImportLoop(p, k) ==
  IF k <= Len(p.list)
  THEN [p EXCEPT !.pc = "await", !.i = k,
                 !.calls = @ \o <<RegisterCall(p.list[k],
                                    ImportUrl(p.form.difyHost, p.list[k]),
                                    p.form)>>]
  ELSE \* setImportedApps, Toast.success, then navigate('/library')
       [p EXCEPT !.pc = "idle", !.i = k, !.toasts = @ \o <<"success">>,
                 !.nav = TRUE, !.form = IdleProc.form]

\* What handleImportSuccess(list) does to the page up to its first await.
HandleImportSuccess(list) ==
  LET p == ImportLoop([IdleProc EXCEPT !.list = list, !.form = configForm], 1) IN
  /\ imp' = p
  /\ loading' = IF p.pc = "await" THEN TRUE ELSE FinallyLoading(TRUE)
  /\ navigated' = (p.pc = "idle")
  /\ importedApps' = IF p.pc = "idle" THEN importedApps \o list
                     ELSE importedApps

\* The awaited fetch of handleImportSuccess settles.
importResponse ==
  /\ imp.pc = "await"
  /\ \E resp \in Responses :
       LET back == [imp EXCEPT !.calls = Settle(@, resp)] IN
       IF ResponseThrows(resp)
       THEN /\ imp' = [back EXCEPT !.pc = "idle", !.toasts = @ \o <<"error">>,
                                   !.form = IdleProc.form]
            /\ loading' = FinallyLoading(loading)
            /\ UNCHANGED <<navigated, importedApps>>
       ELSE LET p == ImportLoop(back, imp.i + 1) IN
            /\ imp' = p
            /\ IF p.pc = "idle"
               THEN /\ importedApps' = importedApps \o imp.list
                    /\ loading' = FinallyLoading(loading)
                    /\ navigated' = TRUE
               ELSE UNCHANGED <<loading, navigated, importedApps>>
  /\ UNCHANGED <<scanning, showImportModal, configForm, apps, selectedApps,
                 toast, reg>>
  /\ UNCHANGED <<modalVars, menuVars>>

\* The "batch import" button: setShowImportModal(true).
openImportModal ==
  /\ ~navigated
  /\ ~showImportModal
  /\ showImportModal' = TRUE
  /\ UNCHANGED <<loading, scanning, configForm, apps, selectedApps,
                 importedApps, navigated, toast, reg, imp>>
  /\ UNCHANGED <<modalVars, menuVars>>


-----------------------------------------------------------------------------
(* DifyImportModal: what the three channels read.                          *)

\* The texts a file or the text area may hold.
TextTagged ==
  "{\"type\":\"DIFY_EXPORT\",\"apps\":[{\"id\":\"x\",\"name\":\"n\",\"type\":\"chat\",\"description\":\"d\",\"api_endpoint\":\"http://e/v1/chat-messages\"},{\"id\":\"y\",\"name\":\"m\",\"type\":\"workflow\",\"description\":\"w\"}]}"
TextApps ==
  "{\"apps\":[{\"id\":\"x\",\"name\":\"n\",\"type\":\"chat\",\"description\":\"d\"}]}"
TextArray ==
  "[{\"id\":\"y\",\"name\":\"m\",\"type\":\"workflow\",\"description\":\"w\"}]"
TextNoApps == "{\"type\":\"DIFY_EXPORT\"}"
TextBroken == "{\"type\":"

Texts == {TextTagged, TextApps, TextArray, TextNoApps, TextBroken}

AppX == [id |-> "x", name |-> "n", description |-> "d", type |-> "chat",
         api_endpoint |-> Undefined]
AppY == [id |-> "y", name |-> "m", description |-> "w", type |-> "workflow",
         api_endpoint |-> Undefined]

\* JSON.parse on the texts above: a SyntaxError, an array, or an object with
\* its `type` and `apps` properties (Undefined when absent).
JSONparse(text) ==
  CASE text = TextTagged ->
         [kind |-> "object", type |-> "DIFY_EXPORT", hasApps |-> TRUE,
          items |-> <<[AppX EXCEPT !.api_endpoint = "http://e/v1/chat-messages"],
                      AppY>>]
    [] text = TextApps ->
         [kind |-> "object", type |-> Undefined, hasApps |-> TRUE,
          items |-> <<AppX>>]
    [] text = TextArray ->
         [kind |-> "array", type |-> Undefined, hasApps |-> FALSE,
          items |-> <<AppY>>]
    [] text = TextNoApps ->
         [kind |-> "object", type |-> "DIFY_EXPORT", hasApps |-> FALSE,
          items |-> <<>>]
    [] OTHER ->
         [kind |-> "SyntaxError", type |-> Undefined, hasApps |-> FALSE,
          items |-> <<>>]

\* A File: file.text() resolves with its text or rejects.
Files == [ok : {TRUE}, text : Texts] \cup [ok : {FALSE}, text : {""}]

\* The mock list scanFromUrl builds from the form's values.
mockApps(config) ==
  << [id |-> config.apiKey,
      name |-> "customer service (" \o config.host \o ")",
      description |-> "chat app imported from " \o config.host,
      type |-> "chat",
      api_endpoint |-> config.host \o "/v1/chat-messages"],
     [id |-> "workflow-001",
      name |-> "document workflow (" \o config.host \o ")",
      description |-> "workflow imported from " \o config.host,
      type |-> "workflow",
      api_endpoint |-> config.host \o "/v1/workflows/workflow-001/run"] >>

NoFileRead == [pc |-> "idle", file |-> [ok |-> FALSE, text |-> ""]]

\* The dialog's controls exist while the page shows the dialog.
ModalShown == ~navigated /\ showImportModal

\* The channel tabs are rendered only while scannedApps is empty.
TabsShown == ModalShown /\ Len(scannedApps) = 0

\* The result list and the footer are rendered otherwise.
ListShown == ModalShown /\ Len(scannedApps) > 0

-----------------------------------------------------------------------------
(* DifyImportModal: the channels.                                          *)

\* scanFromUrl has no await: setLoading(true), setScannedApps, the toast
\* and the finally block's setLoading(false) run in one step.
scanFromUrlOf(config) ==
  /\ TabsShown
  /\ scannedApps' = mockApps(config)
  /\ modalLoading' = FinallyLoading(TRUE)
  /\ toast' = Toast("scanFromUrl", "success")
  /\ UNCHANGED <<modalSelectedApps, fileRead>>
  /\ UNCHANGED <<loading, scanning, showImportModal, configForm, apps,
                 selectedApps, importedApps, navigated, reg, imp>>
  /\ UNCHANGED menuVars

\* The URL tab's submit with the values of its form.
scanFromUrl ==
  \E h \in Hosts, k \in ApiKeys : scanFromUrlOf([host |-> h, apiKey |-> k])

\* importFromFile up to `await file.text()`.  One read runs at a time.
importFromFile ==
  /\ TabsShown
  /\ fileRead.pc = "idle"
  /\ \E file \in Files : fileRead' = [pc |-> "reading", file |-> file]
  /\ modalLoading' = TRUE
  /\ UNCHANGED <<scannedApps, modalSelectedApps>>
  /\ UNCHANGED <<pageVars, menuVars>>

\* A test that does not look at the tag.
ValidExportUntagged(config) == config.kind # "SyntaxError" /\ config.hasApps

\* importFromFile's test of the parsed document.
ValidExport(config) ==
  /\ config.kind # "SyntaxError"
  /\ ~(config.type # "DIFY_EXPORT" \/ ~config.hasApps)

\* file.text() settles: parse, check, setScannedApps or the error toast,
\* and setLoading(false) either way.
fileReadDone ==
  /\ fileRead.pc = "reading"
  /\ LET config == JSONparse(fileRead.file.text) IN
     IF fileRead.file.ok /\ ValidExport(config)
     THEN /\ scannedApps' = config.items
          /\ toast' = Toast("importFromFile", "success")
     ELSE /\ toast' = Toast("importFromFile", "error")
          /\ UNCHANGED scannedApps
  /\ fileRead' = NoFileRead
  /\ modalLoading' = FinallyLoading(modalLoading)
  /\ UNCHANGED modalSelectedApps
  /\ UNCHANGED <<loading, scanning, showImportModal, configForm, apps,
                 selectedApps, importedApps, navigated, reg, imp>>
  /\ UNCHANGED menuVars

\* A test that takes bare arrays alone.
AcceptedTextArrayOnly(config) == config.kind = "array"

\* Array.isArray(config), else config.apps: the two shapes that reach
\* setScannedApps.
AcceptedText(config) ==
  config.kind = "array" \/ (config.kind = "object" /\ config.hasApps)

\* importFromText has no await.
importFromTextOf(text) ==
  /\ TabsShown
  /\ LET config == JSONparse(text) IN
     IF AcceptedText(config)
     THEN /\ scannedApps' = config.items
          /\ toast' = Toast("importFromText", "success")
     ELSE /\ toast' = Toast("importFromText", "error")
          /\ UNCHANGED scannedApps
  /\ modalLoading' = FinallyLoading(TRUE)
  /\ UNCHANGED <<modalSelectedApps, fileRead>>
  /\ UNCHANGED <<loading, scanning, showImportModal, configForm, apps,
                 selectedApps, importedApps, navigated, reg, imp>>
  /\ UNCHANGED menuVars

\* The text tab's button with the text of its text area.
importFromText == \E text \in Texts : importFromTextOf(text)

-----------------------------------------------------------------------------
(* DifyImportModal: selection, reset and the import commit.                *)

\* selectedApps.filter(id => id !== x)
Without(sel, x) == SelectSeq(sel, LAMBDA id : id # x)

\* A commit that hands over every scanned app.
SelectedOfAll(list, sel) == list

\* scannedApps.filter(app => selectedApps.includes(app.id))
SelectedOf(list, sel) == SelectSeq(list, LAMBDA app : app.id \in Range(sel))

\* scannedApps.map(app => app.id)
Ids(list) == [k \in 1..Len(list) |-> list[k].id]

\* A row's checkbox: ticking appends the row's id, clearing filters it out.
checkboxOnChange ==
  /\ ListShown
  /\ \E k \in 1..Len(scannedApps) :
       LET id == scannedApps[k].id
           checked == ~(id \in Range(modalSelectedApps)) IN
       modalSelectedApps' = IF checked THEN Append(modalSelectedApps, id)
                            ELSE Without(modalSelectedApps, id)
  /\ UNCHANGED <<modalLoading, scannedApps, fileRead>>
  /\ UNCHANGED <<pageVars, menuVars>>

\* The select-all button.
selectAll ==
  /\ ListShown
  /\ modalSelectedApps' =
       IF Len(modalSelectedApps) = Len(scannedApps) THEN <<>>
       ELSE Ids(scannedApps)
  /\ UNCHANGED <<modalLoading, scannedApps, fileRead>>
  /\ UNCHANGED <<pageVars, menuVars>>

\* resetState, from the rescan button.
resetState ==
  /\ ListShown
  /\ scannedApps' = <<>>
  /\ modalSelectedApps' = <<>>
  /\ modalLoading' = FALSE
  /\ UNCHANGED fileRead
  /\ UNCHANGED <<pageVars, menuVars>>

\* handleCancel, from the dialog's close control or the footer's cancel:
\* resetState, then the page's onCancel hides the dialog.
handleCancel ==
  /\ ModalShown
  /\ scannedApps' = <<>>
  /\ modalSelectedApps' = <<>>
  /\ modalLoading' = FALSE
  /\ showImportModal' = FALSE
  /\ UNCHANGED fileRead
  /\ UNCHANGED <<loading, scanning, configForm, apps, selectedApps,
                 importedApps, navigated, toast, reg, imp>>
  /\ UNCHANGED menuVars

\* handleImport, from the footer's import button: warn on an empty
\* selection; otherwise hand the selected apps to onSuccess (the page's
\* handleImportSuccess, of which one call runs at a time), then handleCancel.
handleImport ==
  /\ ListShown
  /\ IF Len(modalSelectedApps) = 0
     THEN /\ toast' = Toast("handleImport", "warning")
          /\ UNCHANGED <<loading, navigated, importedApps, imp,
                         showImportModal>>
          /\ UNCHANGED <<scannedApps, modalSelectedApps, modalLoading>>
     ELSE /\ imp.pc = "idle"
          /\ HandleImportSuccess(SelectedOf(scannedApps, modalSelectedApps))
          /\ scannedApps' = <<>>
          /\ modalSelectedApps' = <<>>
          /\ modalLoading' = FALSE
          /\ showImportModal' = FALSE
          /\ toast' = toast
  /\ UNCHANGED fileRead
  /\ UNCHANGED <<scanning, configForm, apps, selectedApps, reg>>
  /\ UNCHANGED menuVars

-----------------------------------------------------------------------------
(* The Dify page and its dialog as one system.                             *)

NoMenu == [rendered |-> FALSE]
NoExport == [pc |-> "idle"]
NoWorkflowImport == [pc |-> "idle"]

InitPage ==
  /\ loading = FALSE
  /\ scanning = FALSE
  /\ showImportModal = FALSE
  /\ configForm = [difyHost |-> DefaultHost, apiKey |-> defaultApiKey]
  /\ apps = <<>>
  /\ selectedApps = <<>>
  /\ importedApps = <<>>
  /\ navigated = FALSE
  /\ toast = NoToast
  /\ reg = IdleProc
  /\ imp = IdleProc

InitModal ==
  /\ modalLoading = FALSE
  /\ scannedApps = <<>>
  /\ modalSelectedApps = <<>>
  /\ fileRead = NoFileRead

Init ==
  /\ InitPage
  /\ InitModal
  /\ menu = NoMenu
  /\ exp = NoExport
  /\ wfi = NoWorkflowImport

\* The page alone: the dialog is never opened.
NextPage ==
  \/ onValueChange
  \/ scanDifyApps
  \/ rowSelectionOnChange
  \/ registerSelectedApps
  \/ registerResponse

SpecPage == Init /\ [][NextPage]_vars

\* The dialog and the import it hands to the page; the page's own scan and
\* registration are not used.
NextDialog ==
  \/ openImportModal
  \/ scanFromUrl
  \/ importFromFile
  \/ fileReadDone
  \/ importFromText
  \/ checkboxOnChange
  \/ selectAll
  \/ resetState
  \/ handleCancel
  \/ handleImport
  \/ importResponse

SpecDialog == Init /\ [][NextDialog]_vars

\* The page and the dialog together, so that a registration, an import and
\* a file read may overlap.  The form keeps its initial values and the
\* dialog is fed from files.
Next ==
  \/ scanDifyApps
  \/ rowSelectionOnChange
  \/ registerSelectedApps
  \/ registerResponse
  \/ openImportModal
  \/ importFromFile
  \/ fileReadDone
  \/ checkboxOnChange
  \/ handleCancel
  \/ handleImport
  \/ importResponse

Spec == Init /\ [][Next]_vars

-----------------------------------------------------------------------------
(* useWorkflowResourceMenuActions: the inputs of one row's menu.           *)

\* The longest server-supplied action list drawn.
MaxActions == 2

\* resource_resource_common.ActionKey: the five keys the menu looks up, and
\* one it does not.
MenuKeys == {"Edit", "SwitchToChatflow", "SwitchToFuncflow", "Delete", "Copy"}
ActionKeys == MenuKeys \cup {"EnableSwitch"}

\* One entry of record.actions; `enable` is optional.
ActionEntries == [key : ActionKeys, enable : {"true", "false", Undefined}]

\* The server lists a key at most once.
ActionLists ==
  {l \in UNION {[1..n -> ActionEntries] : n \in 0..MaxActions} :
     \A a, b \in 1..Len(l) : a # b => l[a].key # l[b].key}

\* record.actions: absent, or a list.
ActionsFields ==
  {[present |-> FALSE, list |-> <<>>]} \cup [present : {TRUE}, list : ActionLists]

\* record.biz_extend: absent, or a map that may lack plugin_id.
BizExtends ==
  {[present |-> FALSE, plugin_id |-> Undefined, product_draft_status |-> Undefined]}
  \cup [present : {TRUE}, plugin_id : {Undefined, "0", "7"},
        product_draft_status : {"Default"}]
  \cup {[present |-> TRUE, plugin_id |-> "7", product_draft_status |-> "Pending"]}

UserIds == {"u1", "u2"}

MenuRecords ==
  [res_type : {"Workflow", "Imageflow"},
   creator_id : UserIds,
   actions : ActionsFields,
   biz_extend : BizExtends]

\* What the hooks around the render supply.
MenuContexts ==
  [userId : {"u1", Undefined},
   enablePublishEntry : BOOLEAN,
   store_imageflow : BOOLEAN]

\* parseWorkflowResourceBizExtend: undefined for an absent biz_extend,
\* otherwise the structured object.
parseWorkflowResourceBizExtend(biz_extend) ==
  IF ~biz_extend.present
  THEN [defined |-> FALSE, plugin_id |-> Undefined,
        product_draft_status |-> Undefined]
  ELSE [defined |-> TRUE, plugin_id |-> biz_extend.plugin_id,
        product_draft_status |-> biz_extend.product_draft_status]

\* actions?.find(action => action.key === key): the first entry with the
\* key; nothing when the list is absent or holds no such entry.
RECURSIVE FindActionFrom(_, _, _)
FindActionFrom(list, key, k) ==
  IF k > Len(list) THEN [found |-> FALSE, enable |-> Undefined]
  ELSE IF list[k].key = key THEN [found |-> TRUE, enable |-> list[k].enable]
  ELSE FindActionFrom(list, key, k + 1)

FindAction(actions, key) ==
  IF ~actions.present THEN [found |-> FALSE, enable |-> Undefined]
  ELSE FindActionFrom(actions.list, key, 1)

\* An entry that shows a missing action disabled instead of hiding it.
ActionItemShownDisabled(config) ==
  [hide |-> FALSE,
   disabled |-> ~config.found \/ config.enable = "false"]

\* An entry that takes an unset `enable` for false.
ActionItemUnsetDisables(config) ==
  [hide |-> ~config.found,
   disabled |-> config.found /\ config.enable # "true"]

\* { hide: !config, disabled: config?.enable === false }
ActionItem(config) ==
  [hide |-> ~config.found,
   disabled |-> config.found /\ config.enable = "false"]

\* The publish entry's `hide`.
PublishHide(record, ctx, bizExtend) ==
  LET isImageFlow == record.res_type = "Imageflow"
      isSelfCreator == record.creator_id = ctx.userId IN
  \/ ~ctx.enablePublishEntry
  \/ (~ctx.store_imageflow /\ isImageFlow)
  \/ ~isSelfCreator
  \/ (bizExtend.defined /\ bizExtend.plugin_id = "0")

\* The publish entry's label.
PublishText(bizExtend) ==
  IF bizExtend.defined /\ bizExtend.product_draft_status = "Default"
  THEN "workflowstore_submit"
  ELSE "workflowstore_submit_update"

\* renderWorkflowResourceActions(record): the entries of extraActions and
\* the delete and copy props of Table.TableAction.
RenderedActions(record, ctx) ==
  LET bizExtend == parseWorkflowResourceBizExtend(record.biz_extend) IN
  [edit |-> ActionItem(FindAction(record.actions, "Edit")),
   export |-> [hide |-> FALSE, disabled |-> FALSE],
   import |-> [hide |-> FALSE, disabled |-> FALSE],
   switchChatflow |-> ActionItem(FindAction(record.actions, "SwitchToChatflow")),
   switchWorkflow |-> ActionItem(FindAction(record.actions, "SwitchToFuncflow")),
   publishWorkflowProduct |->
     [hide |-> PublishHide(record, ctx, bizExtend), disabled |-> FALSE,
      actionText |-> PublishText(bizExtend)],
   deleteProps |-> ActionItem(FindAction(record.actions, "Delete")),
   copyProps |-> ActionItem(FindAction(record.actions, "Copy"))]

\* One render of a row's menu.
renderWorkflowResourceActions ==
  /\ ~menu.rendered
  /\ menu' = [menu EXCEPT !.rendered = TRUE,
                          !.items = RenderedActions(menu.record, menu.ctx)]
  /\ UNCHANGED <<exp, wfi>>
  /\ UNCHANGED <<pageVars, modalVars>>

\* A row and its context, not yet rendered.
InitMenu ==
  /\ InitPage
  /\ InitModal
  /\ exp = NoExport
  /\ wfi = NoWorkflowImport
  /\ \E record \in MenuRecords, ctx \in MenuContexts :
       menu = [rendered |-> FALSE, record |-> record, ctx |-> ctx,
               items |-> <<>>]

NextMenu == renderWorkflowResourceActions

SpecMenu == InitMenu /\ [][NextMenu]_vars

-----------------------------------------------------------------------------
(* exportWorkflow.                                                         *)

\* The records export is called with: the ids may be absent or empty.
ExportRecords ==
  [res_id : {Undefined, "", "w1", "w2"},
   space_id : {Undefined, "", "s1"},
   res_type : {"Workflow", "Imageflow"},
   collaboration_enable : BOOLEAN]

\* What GetCanvasInfo may settle with: a rejection, no response object, a
\* response without data.workflow, or a workflow whose schema_json is
\* absent, valid JSON or broken JSON.
NoWorkflow == [name |-> Undefined, schema_json |-> Undefined]
CanvasResults ==
  [kind : {"reject", "undefined", "noWorkflow"}, workflow : {NoWorkflow}]
  \cup [kind : {"workflow"},
        workflow : [name : {"flow", "draft"}, schema_json : {Undefined, "{}", "{"}]]

\* JSON.parse(schema_json) throws.
SchemaParseThrows(schema_json) == schema_json = "{"

\* A guard that tests the resource id alone.
MissingIdsResOnly(record) == Falsy(record.res_id)

\* `if (!record.res_id || !record.space_id)`: log and return.
MissingIds(record) == Falsy(record.res_id) \/ Falsy(record.space_id)

\* The file the browser is told to download.
Download(record, workflow) ==
  [filename |-> "workflow-" \o workflow.name \o "-" \o record.res_id \o ".json",
   type |-> "WORKFLOW_EXPORT",
   schemaRaw |-> workflow.schema_json,
   spaceId |-> record.space_id]

\* exportWorkflow(record) up to `await import('@coze-workflow/base')`.
exportWorkflow ==
  /\ exp.pc = "idle"
  /\ \E record \in ExportRecords :
       exp' = [pc |-> IF MissingIds(record) THEN "done" ELSE "import",
               record |-> record, calls |-> <<>>, downloads |-> <<>>,
               canvas |-> "none"]
  /\ UNCHANGED <<menu, wfi>>
  /\ UNCHANGED <<pageVars, modalVars>>

\* The dynamic import settles: on success GetCanvasInfo is called with the
\* record's ids; a failed import is caught and logged.
exportModuleLoaded ==
  /\ exp.pc = "import"
  /\ \E loaded \in BOOLEAN :
       exp' = IF loaded
              THEN [exp EXCEPT !.pc = "fetch",
                               !.calls = @ \o <<[api |-> "GetCanvasInfo",
                                                 space_id |-> exp.record.space_id,
                                                 workflow_id |-> exp.record.res_id]>>]
              ELSE [exp EXCEPT !.pc = "done"]
  /\ UNCHANGED <<menu, wfi>>
  /\ UNCHANGED <<pageVars, modalVars>>

\* canvasRes?.data?.workflow is there and its schema parses.
Exportable(res) ==
  /\ res.kind = "workflow"
  /\ ~SchemaParseThrows(res.workflow.schema_json)

\* GetCanvasInfo settles: without a workflow body the function logs and
\* returns; a throw is caught; otherwise the file is downloaded.
exportCanvasInfo ==
  /\ exp.pc = "fetch"
  /\ \E res \in CanvasResults :
       exp' = [exp EXCEPT
                 !.pc = "done",
                 !.canvas = res.kind,
                 !.downloads = IF Exportable(res)
                               THEN @ \o <<Download(exp.record, res.workflow)>>
                               ELSE @]
  /\ UNCHANGED <<menu, wfi>>
  /\ UNCHANGED <<pageVars, modalVars>>

NextExport ==
  \/ exportWorkflow
  \/ exportModuleLoaded
  \/ exportCanvasInfo

SpecExport == Init /\ [][NextExport]_vars

-----------------------------------------------------------------------------
(* importWorkflow.                                                         *)

\* The files the operator may pick.
WfTextObject ==
  "{\"type\":\"WORKFLOW_EXPORT\",\"name\":\"flow\",\"schema\":{\"nodes\":[]}}"
WfTextString ==
  "{\"type\":\"WORKFLOW_EXPORT\",\"name\":\"flow\",\"schema\":\"{}\"}"
WfTextNoSchema == "{\"type\":\"WORKFLOW_EXPORT\",\"name\":\"flow\"}"
WfTextEmptySchema ==
  "{\"type\":\"WORKFLOW_EXPORT\",\"name\":\"flow\",\"schema\":\"\"}"
WfTextNoMarker == "{\"name\":\"flow\",\"schema\":{\"nodes\":[]}}"
WfTextOtherMarker ==
  "{\"type\":\"DIFY_EXPORT\",\"name\":\"flow\",\"schema\":{\"nodes\":[]}}"
WfTextNull == "null"
WfTextBroken == "{\"type\":"

WfTexts ==
  {WfTextObject, WfTextString, WfTextNoSchema, WfTextEmptySchema,
   WfTextNoMarker, WfTextOtherMarker, WfTextNull, WfTextBroken}

\* A schema value: absent, a string or an object (with its JSON text).
NoSchema == [kind |-> "undefined", text |-> Undefined]

\* JSON.parse(e.target.result) on the texts above.
WfJSONparse(text) ==
  CASE text = WfTextObject ->
         [kind |-> "object", type |-> "WORKFLOW_EXPORT", name |-> "flow",
          schema |-> [kind |-> "object", text |-> "{\"nodes\":[]}"]]
    [] text = WfTextString ->
         [kind |-> "object", type |-> "WORKFLOW_EXPORT", name |-> "flow",
          schema |-> [kind |-> "string", text |-> "{}"]]
    [] text = WfTextNoSchema ->
         [kind |-> "object", type |-> "WORKFLOW_EXPORT", name |-> "flow",
          schema |-> NoSchema]
    [] text = WfTextEmptySchema ->
         [kind |-> "object", type |-> "WORKFLOW_EXPORT", name |-> "flow",
          schema |-> [kind |-> "string", text |-> ""]]
    [] text = WfTextNoMarker ->
         [kind |-> "object", type |-> Undefined, name |-> "flow",
          schema |-> [kind |-> "object", text |-> "{\"nodes\":[]}"]]
    [] text = WfTextOtherMarker ->
         [kind |-> "object", type |-> "DIFY_EXPORT", name |-> "flow",
          schema |-> [kind |-> "object", text |-> "{\"nodes\":[]}"]]
    [] text = WfTextNull ->
         [kind |-> "null", type |-> Undefined, name |-> Undefined,
          schema |-> NoSchema]
    [] OTHER ->
         [kind |-> "SyntaxError", type |-> Undefined, name |-> Undefined,
          schema |-> NoSchema]

\* What the picker hands over: no file, a file whose read fails (the
\* reader has no onerror), or a file with one of the texts.
WfFiles ==
  [picked : {FALSE}, ok : {FALSE}, text : {""}]
  \cup [picked : {TRUE}, ok : {FALSE}, text : {""}]
  \cup [picked : {TRUE}, ok : {TRUE}, text : WfTexts]

\* actionProps: the space id may be missing, refreshPage is optional.
ImportProps == [spaceId : {Undefined, "s1"}, refreshPage : BOOLEAN]

\* Date.now() at the two places it is read.
Timestamps == {"1", "2"}

\* What CreateWorkflow may settle with.
CreateResults ==
  [kind : {"reject", "undefined", "noData"}, workflow_id : {Undefined}]
  \cup [kind : {"data"}, workflow_id : {Undefined, "", "n1", "n2"}]

\* What SaveWorkflow may settle with.
SaveResults == {"resolve", "reject"}

\* JSON.parse throws, or reading `.type` of null throws.
ParseThrows(content) == content.kind \in {"SyntaxError", "null"}

\* !content.schema
NoSchemaValue(schema) == schema.kind = "undefined" \/ schema.text = ""

\* A format check that looks at the marker alone.
InvalidFormatMarkerOnly(content) == content.type # "WORKFLOW_EXPORT"

\* content.type !== 'WORKFLOW_EXPORT' || !content.schema
InvalidFormat(content) ==
  content.type # "WORKFLOW_EXPORT" \/ NoSchemaValue(content.schema)

\* typeof content.schema === 'string' ? content.schema
\*                                    : JSON.stringify(content.schema)
SchemaText(schema) ==
  IF schema.kind = "undefined" THEN Undefined ELSE schema.text

\* An id test that is content with any response carrying data.
HasWorkflowIdAnyData(res) == res.kind = "data"

\* createRes?.data?.workflow_id
HasWorkflowId(res) == res.kind = "data" /\ ~Falsy(res.workflow_id)

\* importWorkflow(actionProps): the picker is opened and, when a file is
\* chosen, readAsText is started.
importWorkflow ==
  /\ wfi.pc = "idle"
  /\ \E props \in ImportProps, file \in WfFiles :
       wfi' = [pc |-> IF file.picked THEN "reading" ELSE "done",
               props |-> props, file |-> file, calls |-> <<>>,
               alerts |-> <<>>, refreshed |-> 0,
               createRes |-> "none", createdId |-> Undefined,
               saveRes |-> "none"]
  /\ UNCHANGED <<menu, exp>>
  /\ UNCHANGED <<pageVars, modalVars>>

\* reader.onload up to `await import('@coze-workflow/base')`.  A failed
\* read calls no handler.
importFileLoaded ==
  /\ wfi.pc = "reading"
  /\ LET content == WfJSONparse(wfi.file.text) IN
     wfi' =
       IF ~wfi.file.ok THEN [wfi EXCEPT !.pc = "done"]
       ELSE IF ParseThrows(content)
       THEN [wfi EXCEPT !.pc = "done", !.alerts = @ \o <<"importFailed">>]
       ELSE IF InvalidFormat(content)
       THEN [wfi EXCEPT !.pc = "done", !.alerts = @ \o <<"invalidFormat">>]
       ELSE IF Falsy(wfi.props.spaceId)
       THEN [wfi EXCEPT !.pc = "done", !.alerts = @ \o <<"missingSpaceId">>]
       ELSE [wfi EXCEPT !.pc = "import"]
  /\ UNCHANGED <<menu, exp>>
  /\ UNCHANGED <<pageVars, modalVars>>

\* The dynamic import settles: CreateWorkflow is called, or the failure is
\* caught.
importModuleLoaded ==
  /\ wfi.pc = "import"
  /\ LET content == WfJSONparse(wfi.file.text) IN
     \E loaded \in BOOLEAN, now \in Timestamps :
       wfi' =
         IF loaded
         THEN [wfi EXCEPT
                 !.pc = "create",
                 !.calls = @ \o <<[api |-> "CreateWorkflow",
                                   name |-> content.name \o "_imported_" \o now,
                                   space_id |-> wfi.props.spaceId,
                                   workflow_id |-> Undefined,
                                   schema |-> Undefined]>>]
         ELSE [wfi EXCEPT !.pc = "done", !.alerts = @ \o <<"importFailed">>]
  /\ UNCHANGED <<menu, exp>>
  /\ UNCHANGED <<pageVars, modalVars>>

\* CreateWorkflow settles: with a workflow id SaveWorkflow is called for
\* it; without one the failure alert is shown; a rejection is caught.
importCreateSettled ==
  /\ wfi.pc = "create"
  /\ LET content == WfJSONparse(wfi.file.text) IN
     \E res \in CreateResults, now \in Timestamps :
       wfi' =
         IF res.kind = "reject"
         THEN [wfi EXCEPT !.pc = "done", !.createRes = res.kind,
                          !.alerts = @ \o <<"importFailed">>]
         ELSE IF HasWorkflowId(res)
         THEN [wfi EXCEPT
                 !.pc = "save",
                 !.createRes = res.kind,
                 !.createdId = res.workflow_id,
                 !.calls = @ \o <<[api |-> "SaveWorkflow",
                                   name |-> content.name \o "_imported_" \o now,
                                   space_id |-> wfi.props.spaceId,
                                   workflow_id |-> res.workflow_id,
                                   schema |-> SchemaText(content.schema)]>>]
         ELSE [wfi EXCEPT !.pc = "done", !.createRes = res.kind,
                          !.createdId = res.workflow_id,
                          !.alerts = @ \o <<"createFailed">>]
  /\ UNCHANGED <<menu, exp>>
  /\ UNCHANGED <<pageVars, modalVars>>

\* SaveWorkflow settles: the success alert and refreshPage (when one was
\* given), or the caught rejection.
importSaveSettled ==
  /\ wfi.pc = "save"
  /\ \E res \in SaveResults :
       wfi' =
         IF res = "resolve"
         THEN [wfi EXCEPT
                 !.pc = "done", !.saveRes = res,
                 !.alerts = @ \o <<"success">>,
                 !.refreshed = IF wfi.props.refreshPage THEN @ + 1 ELSE @]
         ELSE [wfi EXCEPT !.pc = "done", !.saveRes = res,
                          !.alerts = @ \o <<"importFailed">>]
  /\ UNCHANGED <<menu, exp>>
  /\ UNCHANGED <<pageVars, modalVars>>

NextImport ==
  \/ importWorkflow
  \/ importFileLoaded
  \/ importModuleLoaded
  \/ importCreateSettled
  \/ importSaveSettled

SpecImport == Init /\ [][NextImport]_vars

-----------------------------------------------------------------------------
(* Properties of the Dify page.                                            *)

CallIds(calls) == [k \in 1..Len(calls) |-> calls[k].id]

IsRegisterPost(call) ==
  /\ call.endpoint = "/api/plugin_api/register_plugin_meta"
  /\ call.method = "POST"

\* A batch has ended with the success toast.
Succeeded(p) == p.pc = "idle" /\ p.toasts = <<"success">>

\* C1: a registerSelectedApps batch whose responses are all OK issues one
\* register_plugin_meta POST per selected id, in selection order, each one
\* only after the one before it has returned.
C1_OnePostPerSelectedId ==
  /\ \A k \in 1..Len(reg.calls) :
       /\ IsRegisterPost(reg.calls[k])
       /\ k < Len(reg.calls) => reg.calls[k].response = "ok"
  /\ reg.pc = "await" => CallIds(reg.calls) = SubSeq(reg.list, 1, reg.i)
  /\ Succeeded(reg) => CallIds(reg.calls) = reg.list

\* C2: registerSelectedApps called with an empty selection issues no
\* call, leaves loading alone, does not navigate, and shows a warning.
C2_EmptySelectionOnlyWarns ==
  [][(registerSelectedApps /\ Len(selectedApps) = 0) =>
       /\ toast' = Toast("registerSelectedApps", "warning")
       /\ loading' = loading
       /\ navigated' = navigated
       /\ reg' = reg
       /\ imp' = imp]_vars

C2_Witness ==
  /\ toast = Toast("registerSelectedApps", "warning")
  /\ selectedApps = <<>>
  /\ apps # <<>>
  /\ reg.calls = <<>>
  /\ ~loading
  /\ ~navigated

\* A batch a backend answer has failed: the failing call is the last one
\* made, the batch has ended with the error toast alone and without
\* navigating, and every call it made is a register_plugin_meta POST.
FailedAtLastCall(p) ==
  \A k \in 1..Len(p.calls) :
    /\ IsRegisterPost(p.calls[k])
    /\ p.calls[k].response \in {"notok", "reject"} =>
         /\ k = Len(p.calls)
         /\ p.pc = "idle"
         /\ p.toasts = <<"error">>
         /\ ~p.nav

\* C3: when the backend rejects the k-th app of a batch, the batch is
\* reported as failed (error toast, no success toast, no navigation), the
\* k-1 earlier calls are not rolled back and no call follows the k-th.
C3_RejectionFailsBatch ==
  /\ FailedAtLastCall(reg)
  /\ FailedAtLastCall(imp)
  /\ (reg.pc = "idle" /\ reg.toasts = <<"error">>) =>
       CallIds(reg.calls) = SubSeq(reg.list, 1, reg.i)
  /\ (imp.pc = "idle" /\ imp.toasts = <<"error">>) =>
       CallIds(imp.calls) = SubSeq(Ids(imp.list), 1, imp.i)

\* The page's batch rejected at its first app of two, the import batch
\* rejected at its second app after the first was registered.
C3_Witness ==
  /\ reg.pc = "idle" /\ Len(reg.list) = 2 /\ Len(reg.calls) = 1
  /\ reg.calls[1].response = "notok"
  /\ imp.pc = "idle" /\ Len(imp.list) = 2 /\ Len(imp.calls) = 2
  /\ imp.calls[1].response = "ok" /\ imp.calls[2].response = "notok"

\* Every app of list is shown in the imported list.
Imported(list) == Range(list) \subseteq Range(importedApps)

\* C4: after a batch has succeeded, the apps it processed are in the
\* imported list and the selection it was started from is empty.
C4_SuccessAppendsAndClears ==
  /\ Succeeded(reg) =>
       /\ \A k \in 1..Len(reg.calls) :
            \E a \in Range(importedApps) : a.id = reg.calls[k].id
       /\ selectedApps = <<>>
  /\ Succeeded(imp) => Imported(imp.list)

\* C5: every selected id is the id of an app of the current scan result.
C5_SelectionWithinScanResult ==
  Range(selectedApps) \subseteq {a.id : a \in Range(apps)}

\* The page after a scan, with no row or every row ticked and the dialog
\* opened: a state scanDifyApps, rowSelectionOnChange and openImportModal
\* lead to.
InitScanned ==
  /\ InitModal
  /\ menu = NoMenu
  /\ exp = NoExport
  /\ wfi = NoWorkflowImport
  /\ loading = FALSE
  /\ scanning = FALSE
  /\ showImportModal = TRUE
  /\ configForm = [difyHost |-> DefaultHost, apiKey |-> defaultApiKey]
  /\ apps = ScanResult(configForm)
  /\ selectedApps \in {<<>>, [k \in 1..Len(apps) |-> apps[k].id]}
  /\ importedApps = <<>>
  /\ navigated = FALSE
  /\ toast = Toast("scanDifyApps", "success")
  /\ reg = IdleProc
  /\ imp = IdleProc

\* The operations that raise a loading flag and what starts them.  The
\* channels without an await are run on the failing inputs and on the
\* default form; the channel with an await is run on every file.
NextLive ==
  \/ scanDifyApps
  \/ scanFromUrlOf([host |-> DefaultHost, apiKey |-> defaultApiKey])
  \/ \E text \in {TextBroken, TextNoApps} : importFromTextOf(text)
  \/ registerSelectedApps
  \/ registerResponse
  \/ openImportModal
  \/ importFromFile
  \/ fileReadDone
  \/ selectAll
  \/ handleImport
  \/ importResponse

\* Fair scheduling of what an await waits for: a fetch and a file read
\* settle sooner or later.
LiveSpec ==
  /\ InitScanned
  /\ [][NextLive]_vars
  /\ WF_vars(registerResponse)
  /\ WF_vars(importResponse)
  /\ WF_vars(fileReadDone)

\* C6: a loading flag is set only while its operation runs, and every
\* registration, import and file read that has started ends, whatever the
\* answers, with its flag false.
C6_LoadingFlagsReset ==
  /\ [](~scanning)
  /\ [](loading => (reg.pc = "await" \/ imp.pc = "await"))
  /\ [](modalLoading => fileRead.pc = "reading")
  /\ (reg.pc = "await") ~> (reg.pc = "idle" /\ ~loading)
  /\ (imp.pc = "await") ~> (imp.pc = "idle" /\ ~loading)
  /\ (fileRead.pc = "reading") ~> (fileRead.pc = "idle" /\ ~modalLoading)

\* A registration that failed, an import that failed and a file that did
\* not parse have all ended, with both flags false.
C6_Witness ==
  /\ reg.pc = "idle" /\ reg.toasts = <<"error">>
  /\ imp.pc = "idle" /\ imp.toasts = <<"error">>
  /\ toast = Toast("importFromFile", "error")
  /\ ~loading /\ ~modalLoading /\ ~scanning

-----------------------------------------------------------------------------
(* Properties of the workflow resource menu.                               *)

\* The rendered entry of one of the five server-controlled actions.
MenuItem(key) ==
  CASE key = "Edit" -> menu.items.edit
    [] key = "SwitchToChatflow" -> menu.items.switchChatflow
    [] key = "SwitchToFuncflow" -> menu.items.switchWorkflow
    [] key = "Delete" -> menu.items.deleteProps
    [] key = "Copy" -> menu.items.copyProps

\* The entries of the record's action list with the key (none when the
\* list is absent).
EntriesFor(key) ==
  IF ~menu.record.actions.present THEN {}
  ELSE {e \in Range(menu.record.actions.list) : e.key = key}

\* C7: an action whose key the record's action list does not hold (or
\* whose record has no action list) is hidden, and not marked disabled.
C7_MissingKeyHides ==
  menu.rendered =>
    \A key \in MenuKeys :
      EntriesFor(key) = {} =>
        MenuItem(key).hide /\ ~MenuItem(key).disabled

C7_Witness ==
  /\ menu.rendered
  /\ menu.record.actions.present
  /\ EntriesFor("Edit") = {}
  /\ EntriesFor("Delete") # {}
  /\ menu.items.edit.hide
  /\ ~menu.items.deleteProps.hide

\* C8: an action whose entry has enable false is shown disabled; one whose
\* entry has enable true or unset is shown enabled.
C8_EnableFlagDisables ==
  menu.rendered =>
    \A key \in MenuKeys :
      \A e \in EntriesFor(key) :
        /\ ~MenuItem(key).hide
        /\ MenuItem(key).disabled = (e.enable = "false")

C8_Witness ==
  /\ menu.rendered
  /\ \E e \in EntriesFor("Copy") : e.enable = "false"
  /\ \E e \in EntriesFor("Edit") : e.enable = Undefined
  /\ menu.items.copyProps.disabled /\ ~menu.items.copyProps.hide
  /\ ~menu.items.edit.disabled /\ ~menu.items.edit.hide

\* The record carries a plugin id other than zero.
HasNonZeroPluginId(record) ==
  /\ record.biz_extend.present
  /\ record.biz_extend.plugin_id \notin {Undefined, "0"}

\* C9: the publish entry is shown only if publishing is enabled, the
\* record is not an image flow shut out by store_imageflow, the user is
\* the creator and the record carries a non-zero plugin id; it is hidden
\* whenever the user is not the creator.
C9_PublishVisibleOnlyIf ==
  menu.rendered =>
    /\ ~menu.items.publishWorkflowProduct.hide =>
         /\ menu.ctx.enablePublishEntry
         /\ ~(menu.record.res_type = "Imageflow" /\ ~menu.ctx.store_imageflow)
         /\ menu.ctx.userId = menu.record.creator_id
         /\ HasNonZeroPluginId(menu.record)
    /\ menu.ctx.userId # menu.record.creator_id =>
         menu.items.publishWorkflowProduct.hide

\* C10: exportWorkflow makes no backend call and no download for a record
\* without a resource id or a space id, and no download when the fetch
\* brings no workflow body.
C10_ExportNeedsIdsAndBody ==
  exp.pc # "idle" =>
    /\ (exp.record.res_id \in {Undefined, ""}
        \/ exp.record.space_id \in {Undefined, ""}) =>
         exp.calls = <<>> /\ exp.downloads = <<>> /\ exp.pc = "done"
    /\ exp.canvas \in {"undefined", "noWorkflow"} => exp.downloads = <<>>
    /\ Len(exp.downloads) <= Len(exp.calls)

C10_Witness ==
  /\ exp.pc = "done"
  /\ exp.record.res_id = Undefined
  /\ exp.record.space_id = "s1"
  /\ exp.calls = <<>>
  /\ exp.downloads = <<>>

-----------------------------------------------------------------------------
(* Properties of importWorkflow.                                           *)

\* The alerts that report a failure.
ErrorAlerts == {"invalidFormat", "importFailed", "missingSpaceId", "createFailed"}

\* The picked file was read and its content is not valid JSON, or lacks
\* the WORKFLOW_EXPORT marker, or lacks a schema.
BadWorkflowFile ==
  /\ wfi.pc # "idle"
  /\ wfi.file.picked /\ wfi.file.ok
  /\ LET content == WfJSONparse(wfi.file.text) IN
     \/ content.kind = "SyntaxError"
     \/ content.type # "WORKFLOW_EXPORT"
     \/ content.schema.kind = "undefined"

\* C11: for a file that is not valid JSON, or lacks the WORKFLOW_EXPORT
\* marker, or lacks a schema, importWorkflow shows one error alert, calls
\* neither CreateWorkflow nor SaveWorkflow and does not call refreshPage.
C11_BadFileAbortsImport ==
  BadWorkflowFile =>
    /\ wfi.calls = <<>>
    /\ wfi.refreshed = 0
    /\ wfi.pc \in {"reading", "done"}
    /\ wfi.pc = "done" =>
         Len(wfi.alerts) = 1 /\ wfi.alerts[1] \in ErrorAlerts

\* A file with the marker and no schema has been handled, with a space id
\* and a refresh callback at hand.
C11_Witness ==
  /\ wfi.pc = "done"
  /\ wfi.file.picked /\ wfi.file.ok
  /\ wfi.file.text = WfTextNoSchema
  /\ wfi.props.spaceId = "s1" /\ wfi.props.refreshPage
  /\ wfi.alerts = <<"invalidFormat">>
  /\ wfi.calls = <<>>

\* C12: SaveWorkflow is the second call, after a CreateWorkflow that
\* returned an id, and it targets that id; refreshPage runs once, only
\* after both calls have returned; when CreateWorkflow returns no id there
\* is no SaveWorkflow call, the failure alert is shown and refreshPage is
\* not called.
C12_CreateSaveRefreshOrder ==
  wfi.pc # "idle" =>
    /\ \A k \in 1..Len(wfi.calls) :
         wfi.calls[k].api = "SaveWorkflow" =>
           /\ k = 2
           /\ wfi.calls[1].api = "CreateWorkflow"
           /\ wfi.createRes = "data"
           /\ wfi.createdId \notin {Undefined, ""}
           /\ wfi.calls[k].workflow_id = wfi.createdId
    /\ (Len(wfi.calls) >= 1 => wfi.calls[1].api = "CreateWorkflow")
    /\ wfi.refreshed > 0 =>
         /\ wfi.refreshed = 1
         /\ Len(wfi.calls) = 2
         /\ wfi.createRes = "data"
         /\ wfi.saveRes = "resolve"
         /\ wfi.alerts = <<"success">>
    /\ (wfi.createRes \in {"undefined", "noData", "data"}
        /\ wfi.createdId \in {Undefined, ""}) =>
         /\ Len(wfi.calls) = 1
         /\ wfi.alerts = <<"createFailed">>
         /\ wfi.refreshed = 0
         /\ wfi.pc = "done"

\* One import that went through create, save and refresh, and the state
\* is the one after the refresh.
C12_Witness ==
  /\ wfi.pc = "done"
  /\ wfi.refreshed = 1
  /\ Len(wfi.calls) = 2
  /\ wfi.calls[2].api = "SaveWorkflow"
  /\ wfi.calls[2].workflow_id = "n2"
  /\ wfi.calls[2].schema = "{\"nodes\":[]}"

-----------------------------------------------------------------------------
(* Properties of the scan's type inference and the invocation URL.         *)

\* s starts with prefix.
StartsWith(s, prefix) ==
  Len(s) >= Len(prefix) /\ SubSeq(s, 1, Len(prefix)) = prefix

\* The type the prefix of an API key stands for.
TypeOfPrefix(key) ==
  IF StartsWith(key, "workflow-") THEN "workflow" ELSE "chat"

\* The invocation URL of an app of the given type.
UrlOfType(host, type, id) ==
  IF type = "chat" THEN host \o "/v1/chat-messages"
  ELSE host \o "/v1/workflows/" \o id \o "/run"

\* C13: the app a scan builds from the API key has the type its prefix
\* stands for ("workflow-" workflow, "app-" and anything else chat), and
\* the call being made for an app carries the URL of its type.
C13_TypeFromPrefixAndUrl ==
  /\ \A k \in 1..Len(apps) :
       apps[k].id \in ApiKeys => apps[k].type = TypeOfPrefix(apps[k].id)
  /\ reg.pc = "await" =>
       LET call == reg.calls[Len(reg.calls)]
           app == reg.apps[Find(reg.apps, call.id)] IN
       call.url = UrlOfType(reg.form.difyHost, app.type, call.id)

-----------------------------------------------------------------------------
(* Properties of the dialog's channels.                                    *)

\* The text is a bare array of apps or an object with an apps array.
ArrayOrAppsObject(text) == text \in {TextArray, TextApps, TextTagged}

\* C14: importFromText given a bare array or an object with an apps array
\* sets the scanned list to exactly that array, so the text
\* {"apps":[{"id":"x",...}]} gives one scanned app with id "x"; given any
\* other text it shows an error and leaves the scanned list as it was.
C14_TextSetsExactlyTheArray ==
  [][\A text \in Texts :
       importFromTextOf(text) =>
         /\ ArrayOrAppsObject(text) =>
              /\ scannedApps' = JSONparse(text).items
              /\ toast' = Toast("importFromText", "success")
         /\ text = TextApps =>
              Len(scannedApps') = 1 /\ scannedApps'[1].id = "x"
         /\ text = TextArray =>
              Len(scannedApps') = 1 /\ scannedApps'[1].id = "y"
         /\ ~ArrayOrAppsObject(text) =>
              /\ scannedApps' = scannedApps
              /\ toast' = Toast("importFromText", "error")]_vars

\* The text {"apps":[{"id":"x",...}]} has been parsed.
C14_Witness ==
  /\ toast = Toast("importFromText", "success")
  /\ Len(scannedApps) = 1
  /\ scannedApps[1].id = "x"
  /\ scannedApps[1].type = "chat"

\* The positions of the scanned apps whose id is selected.
SelectedPositions ==
  {k \in 1..Len(scannedApps) : scannedApps[k].id \in Range(modalSelectedApps)}

\* list holds exactly the scanned apps whose id is selected, each once, in
\* the order of the scanned list.
ExactlyTheSelected(list) ==
  /\ Len(list) = Cardinality(SelectedPositions)
  /\ \A k \in SelectedPositions :
       \E j \in 1..Len(list) :
         /\ list[j] = scannedApps[k]
         /\ j = Cardinality({m \in SelectedPositions : m <= k})

\* C15: handleImport with a selection hands exactly the selected scanned
\* apps to onSuccess, once, and the only calls made are those of that
\* callback; then the scanned list and the selection are emptied and the
\* dialog is closed.  With an empty selection the callback is not called
\* and no state changes (a warning is shown).
C15_ImportCommitHandsOver ==
  [][handleImport =>
       IF Len(modalSelectedApps) = 0
       THEN /\ imp' = imp
            /\ UNCHANGED <<modalLoading, scannedApps, modalSelectedApps,
                           fileRead>>
            /\ UNCHANGED <<loading, scanning, showImportModal, configForm,
                           apps, selectedApps, importedApps, navigated, reg>>
            /\ toast' = Toast("handleImport", "warning")
       ELSE /\ imp.pc = "idle"
            /\ ExactlyTheSelected(imp'.list)
            /\ imp' = ImportLoop([IdleProc EXCEPT !.list = imp'.list,
                                                  !.form = configForm], 1)
            /\ scannedApps' = <<>>
            /\ modalSelectedApps' = <<>>
            /\ modalLoading' = FALSE
            /\ showImportModal' = FALSE
            /\ reg' = reg]_vars

\* One of two scanned apps was selected and handed over; the dialog is
\* closed and reset while the callback's call is in flight.
C15_Witness ==
  /\ imp.pc = "await"
  /\ Len(imp.list) = 1
  /\ imp.list[1].id = "y"
  /\ Len(imp.calls) = 1
  /\ scannedApps = <<>>
  /\ modalSelectedApps = <<>>
  /\ ~showImportModal

\* The file being read is not valid JSON, or is not tagged DIFY_EXPORT, or
\* has no apps field (or cannot be read at all).
BadExportFile ==
  LET config == JSONparse(fileRead.file.text) IN
  \/ ~fileRead.file.ok
  \/ config.kind = "SyntaxError"
  \/ config.type # "DIFY_EXPORT"
  \/ ~config.hasApps

\* C16: importFromFile on a file that is not valid JSON, or is not tagged
\* DIFY_EXPORT, or has no apps field, shows an error and leaves the
\* scanned list and the selection as they were.
C16_BadFileLeavesListAndSelection ==
  [][(fileReadDone /\ BadExportFile) =>
       /\ scannedApps' = scannedApps
       /\ modalSelectedApps' = modalSelectedApps
       /\ toast' = Toast("importFromFile", "error")]_vars

\* A bad file has been reported while a list and a selection were there.
C16_Witness ==
  /\ toast = Toast("importFromFile", "error")
  /\ Len(scannedApps) = 2
  /\ Len(modalSelectedApps) = 1
  /\ fileRead.pc = "idle"

\* C17: while the page is shown, loading is true in every state in which
\* a register_plugin_meta call of either batch is in flight.
C17_LoadingWhileCallInFlight ==
  (~navigated /\ (reg.pc = "await" \/ imp.pc = "await")) => loading

\* C18: every id selected in the dialog is the id of a scanned app; with
\* an empty scanned list the selection is empty.
C18_ModalSelectionWithinScanned ==
  /\ Range(modalSelectedApps) \subseteq {a.id : a \in Range(scannedApps)}
  /\ scannedApps = <<>> => modalSelectedApps = <<>>

=============================================================================
